---- MODULE Spec2Model ----
(***************************************************************************)
(* State machine of the AuthProvider of src/context/AuthContext.tsx: the   *)
(* four pieces of React state, the subscription to the backend auth-state  *)
(* stream, the login and logout calls (one process per call, suspended at  *)
(* each await) and the backend they talk to.                               *)
(*                                                                         *)
(* A nullable value is a sequence of length at most one: <<>> is null and  *)
(* <<v>> is the value v.                                                   *)
(*                                                                         *)
(* One action is one run of the single thread between two awaits.  The     *)
(* root is made with createRoot (src/index.tsx), so the state setters      *)
(* called in one such run are applied together in one render.              *)
(*                                                                         *)
(* Undelivered notifications are kept as the set of their kinds: the       *)
(* callback only tests the kind, and handling a kind twice is handling it  *)
(* once.                                                                   *)
(***************************************************************************)
EXTENDS Naturals, Sequences, FiniteSets

\* ---------------------------------------------------------------- bounds
MaxLogins == 1      \* login calls made over a run
MaxLogouts == 1     \* logout calls made over a run
MaxMounts == 1      \* times the provider is mounted over a run
MaxDepth == 2       \* providers above the component that calls useRequests

LoginIds == 1..MaxLogins
LogoutIds == 1..MaxLogouts

\* ------------------------------------------------------------ the backend
NULL == <<>>
Some(v) == <<v>>

\* Accounts of the hosted backend and the profiles table joined by user id.
Users == {1, 2}
EmailOf == <<"ada@zankli.test", "bob@zankli.test">>
Profiles == << [role |-> "admin", full_name |-> "Ada Obi"],
               [role |-> "staff", full_name |-> "Bob Eze"] >>

\* data.session of a successful sign-in: the part of it the provider reads.
SessionOf(u) == [user |-> [id |-> u, email |-> EmailOf[u]]]

\* error.message of a rejected sign-in.
AuthErrorMsgs == {"Invalid login credentials", "Email not confirmed"}
\* e.message of a value thrown by an awaited backend call ("" : no message).
ThrownMsgs == {"Failed to fetch", ""}

\* The kinds of notification of the auth-state stream.
EventKinds == {"SIGNED_IN", "SIGNED_OUT", "TOKEN_REFRESHED"}

\* The fixed messages of login.
ContactSupportMsg ==
    "Login successful, but failed to retrieve user profile. Please contact support."
UnknownErrorMsg == "An unknown error occurred during login."
NetworkErrorMsg == "An unexpected network error occurred."

\* What an awaited backend call can come back with.
Resp(kind, msg, user) == [kind |-> kind, msg |-> msg, user |-> user]
SignInResponses ==
    {Resp("error", m, 0) : m \in AuthErrorMsgs}
        \cup {Resp("session", "", u) : u \in Users}
        \cup {Resp("neither", "", 0)}
        \cup {Resp("throw", m, 0) : m \in ThrownMsgs}
ProfileResponses ==
    {Resp(k, "", 0) : k \in {"row", "error", "norow", "throw"}}
SignOutResponses ==
    {Resp("ok", "", 0), Resp("error", "", 0)}
        \cup {Resp("throw", m, 0) : m \in ThrownMsgs}

VARIABLES
    currentUser,        \* useState<User | null>
    session,            \* useState<Session | null>
    isInitializing,     \* useState(false)
    isAuthenticating,   \* useState(false)
    mounted,            \* the provider is in the rendered tree
    instance,           \* which mount of the provider this is (0: none yet)
    listeners,          \* the subscriptions the auth-state stream holds
    logins,             \* the login calls
    logouts,            \* the logout calls
    notifications,      \* notifications emitted and not yet delivered
    backendUser,        \* the user the backend holds a session for, or null
    document,           \* ids of the elements of the page
    boot,               \* the run of the startup script of src/index.tsx
    ancestors,          \* providers above a component, outermost first
    hook                \* what the component's call of useRequests did

authVars == <<currentUser, session, isInitializing, isAuthenticating, mounted,
              instance, listeners, logins, logouts, notifications, backendUser>>

uiVars == <<document, boot, ancestors, hook>>

vars == <<authVars, uiVars>>

reactState == <<currentUser, session, isInitializing, isAuthenticating>>

\* A login call: where it is suspended (pc), the mount that made it (inst),
\* data.session (sess) and, once it has resolved, the error it resolved to.
\* The other fields record what happened to it: how each awaited call
\* settled (sres, pres, ores), the backend's error message (serr), the
\* message of the exception the outer catch caught (thrown), the backend
\* calls it issued and the times it reset isAuthenticating.
IdleLogin == [pc |-> "idle", inst |-> 0, sess |-> NULL,
              sres |-> "none", pres |-> "none", ores |-> "none",
              serr |-> NULL, thrown |-> NULL, error |-> NULL,
              nSignIn |-> 0, nProfile |-> 0, nSignOut |-> 0, nReset |-> 0]

IdleLogout == [pc |-> "idle", nSignOut |-> 0]

\* ---------------------------------------------------- the startup script
\* The element tree given to root.render, outermost first.
RenderedTree_RequestOutermost ==
    <<"StrictMode", "RequestProvider", "AuthProvider", "VendorProvider",
      "StoreProvider", "App">>

RenderedTree ==
    <<"StrictMode", "AuthProvider", "RequestProvider", "VendorProvider",
      "StoreProvider", "App">>

RootMissingMsg == "Could not find root element to mount to"

\* The script before it runs: nothing thrown, no root created, no render.
BootStart == [pc |-> "start", error |-> NULL, roots |-> 0, renders |-> 0,
              tree |-> <<>>]

\* document.getElementById(id) in the page doc.
getElementById(doc, id) == IF id \in doc THEN Some(id) ELSE NULL

\* The script of src/index.tsx run from top to bottom in the page doc.
RunScript(doc, b) ==
    LET rootElement == getElementById(doc, "root") IN
    IF rootElement = NULL
    THEN [b EXCEPT !.pc = "threw", !.error = Some(RootMissingMsg)]
    ELSE [b EXCEPT !.pc = "rendered", !.roots = @ + 1, !.renders = @ + 1,
                   !.tree = RenderedTree]

\* ------------------------------------------------------- useRequests
\* A provider above the component: the context it provides and its value.
Providers ==
    {[kind |-> "Request", value |-> v] : v \in {"requests-1", "requests-2"}}
        \cup {[kind |-> k, value |-> "other"] : k \in {"Auth", "Vendor", "Store"}}

\* useContext: the value of the nearest provider of the context above the
\* component, or the context's default, undefined.
useContext(kind, anc) ==
    LET at == {i \in 1..Len(anc) : anc[i].kind = kind} IN
    IF at = {}
    THEN NULL
    ELSE Some(anc[CHOOSE i \in at : \A j \in at : j <= i].value)

RequestProviderMissingMsg == "useRequests must be used within a RequestProvider"

NoHook == [status |-> "none", value |-> NULL, message |-> ""]

\* useRequests that hands on whatever useContext gave it.
useRequests_Unchecked(anc) ==
    [status |-> "returned", value |-> useContext("Request", anc), message |-> ""]

\* useRequests called by a component below the providers anc.
useRequests(anc) ==
    LET context == useContext("Request", anc) IN
    IF context = NULL
    THEN [status |-> "threw", value |-> NULL,
          message |-> RequestProviderMissingMsg]
    ELSE [status |-> "returned", value |-> context, message |-> ""]

\* The provider has not mounted yet; the backend may hold a session that
\* an earlier page load persisted.
AuthInit ==
    /\ currentUser = NULL
    /\ session = NULL
    /\ isInitializing = FALSE
    /\ isAuthenticating = FALSE
    /\ mounted = FALSE
    /\ instance = 0
    /\ listeners = {}
    /\ logins = [c \in LoginIds |-> IdleLogin]
    /\ logouts = [l \in LogoutIds |-> IdleLogout]
    /\ notifications = {}
    /\ backendUser \in {NULL} \cup {Some(u) : u \in Users}

\* The startup script has rendered the tree into the page's root element.
Init ==
    /\ AuthInit
    /\ document = {"root"}
    /\ boot = RunScript(document, BootStart)
    /\ ancestors = <<>>
    /\ hook = NoHook

\* A state setter of mount i takes effect only while that mount is in the
\* tree: React drops an update to a component that has been unmounted.
Live(i) == mounted /\ i = instance

\* ------------------------------------------------------- state setters
setCurrentUser(i, v) == currentUser' = IF Live(i) THEN v ELSE currentUser
setSession(i, v) == session' = IF Live(i) THEN v ELSE session
setIsAuthenticating(i, v) ==
    isAuthenticating' = IF Live(i) THEN v ELSE isAuthenticating

\* ------------------------------------------------------------ backend
\* supabase.auth.signInWithPassword: a session is stored and SIGNED_IN is
\* emitted when the credentials are accepted.
BackendSignIn(resp) ==
    IF resp.kind = "session"
    THEN /\ backendUser' = Some(resp.user)
         /\ notifications' = notifications \cup {"SIGNED_IN"}
    ELSE UNCHANGED <<backendUser, notifications>>

\* supabase.auth.signOut: the stored session is removed and SIGNED_OUT is
\* emitted when the call succeeds; nothing happens when it fails.
BackendSignOut(resp) ==
    IF resp.kind = "ok"
    THEN /\ backendUser' = NULL
         /\ notifications' = notifications \cup {"SIGNED_OUT"}
    ELSE UNCHANGED <<backendUser, notifications>>

\* supabase.from('profiles').select('role, full_name').eq('id', id).single()
ProfileQuery(id, resp) ==
    [threw |-> resp.kind = "throw",
     error |-> IF resp.kind = "error" THEN Some("profile query failed") ELSE NULL,
     data  |-> IF resp.kind = "row" THEN Some(Profiles[id]) ELSE NULL]

\* fetchUserProfile with the two profile fields taken for one another.
fetchUserProfile_Swapped(s, resp) ==
    LET q == ProfileQuery(s.user.id, resp) IN
    IF q.threw \/ q.error # NULL
    THEN [threw |-> TRUE, user |-> NULL]
    ELSE IF q.data # NULL
    THEN [threw |-> FALSE,
          user  |-> Some([id       |-> s.user.id,
                          email    |-> s.user.email,
                          role     |-> q.data[1].full_name,
                          fullName |-> q.data[1].role])]
    ELSE [threw |-> TRUE, user |-> NULL]

\* ----------------------------------------------------- fetchUserProfile
\* The User it returns, or threw = TRUE when it throws.
fetchUserProfile(s, resp) ==
    LET q == ProfileQuery(s.user.id, resp) IN
    IF q.threw \/ q.error # NULL
    THEN [threw |-> TRUE, user |-> NULL]
    ELSE IF q.data # NULL
    THEN [threw |-> FALSE,
          user  |-> Some([id       |-> s.user.id,
                          email    |-> s.user.email,
                          role     |-> q.data[1].role,
                          fullName |-> q.data[1].full_name])]
    ELSE [threw |-> TRUE, user |-> NULL]

\* ------------------------------------------------------------- login
\* The outer catch without its fallback message.
CatchError_NoFallback(msg) == Some(msg)

\* The outer catch: e.message || "An unexpected network error occurred."
CatchError(msg) == IF msg # "" THEN Some(msg) ELSE Some(NetworkErrorMsg)

\* A login that leaves without resetting the flag.
Finally_Skipped(c) == UNCHANGED isAuthenticating

\* The finally block, entered on every way out of the try.
Finally(c) == setIsAuthenticating(logins[c].inst, FALSE)

\* login returns err: the promise resolves once the finally block has run.
Return(c, err, tags) ==
    /\ logins' = [logins EXCEPT ![c] =
            [tags EXCEPT !.pc = "done", !.inst = 0, !.error = err,
                         !.nReset = @ + 1]]
    /\ Finally(c)

\* login testing data.session before error: a rejected sign-in falls to the
\* unknown-error return.
AfterSignIn_SessionFirst(resp) ==
    CASE resp.kind = "throw"   -> [goOn |-> FALSE, error |-> CatchError(resp.msg)]
      [] resp.kind = "session" -> [goOn |-> TRUE, error |-> NULL]
      [] OTHER                 -> [goOn |-> FALSE, error |-> Some(UnknownErrorMsg)]

\* What login does with the outcome of signInWithPassword: the value it
\* returns, or goOn = TRUE when it goes on to fetchUserProfile.
AfterSignIn(resp) ==
    CASE resp.kind = "throw"   -> [goOn |-> FALSE, error |-> CatchError(resp.msg)]
      [] resp.kind = "error"   -> [goOn |-> FALSE, error |-> Some(resp.msg)]
      [] resp.kind = "session" -> [goOn |-> TRUE, error |-> NULL]
      [] resp.kind = "neither" -> [goOn |-> FALSE, error |-> Some(UnknownErrorMsg)]

\* What login returns once the compensating signOut has settled: the inner
\* catch does not guard its await, so a throw reaches the outer catch.
AfterSignOut(resp) ==
    IF resp.kind = "throw"
    THEN CatchError(resp.msg)
    ELSE Some(ContactSupportMsg)

\* A login that clears the user and the session before it signs in.
LoginCall_ClearsState(c) ==
    /\ mounted
    /\ logins[c].pc = "idle"
    /\ c > 1 => logins[c - 1].pc # "idle"
    /\ isAuthenticating' = TRUE
    /\ currentUser' = NULL
    /\ session' = NULL
    /\ logins' = [logins EXCEPT ![c].pc = "signIn", ![c].inst = instance,
                                ![c].nSignIn = @ + 1]
    /\ UNCHANGED <<isInitializing, mounted, instance,
                   listeners, logouts, notifications, backendUser>>
    /\ UNCHANGED uiVars

\* login(email, password) up to its first await.  Descendants of a mounted
\* provider call it; the calls are numbered in the order they are made.
LoginCall(c) ==
    /\ mounted
    /\ logins[c].pc = "idle"
    /\ c > 1 => logins[c - 1].pc # "idle"
    /\ isAuthenticating' = TRUE
    /\ logins' = [logins EXCEPT ![c].pc = "signIn", ![c].inst = instance,
                                ![c].nSignIn = @ + 1]
    /\ UNCHANGED <<currentUser, session, isInitializing, mounted, instance,
                   listeners, logouts, notifications, backendUser>>
    /\ UNCHANGED uiVars

\* signInWithPassword settles and login runs to its next await or its end.
LoginAfterSignIn(c) ==
    /\ logins[c].pc = "signIn"
    /\ \E resp \in SignInResponses :
        LET me == [logins[c] EXCEPT
                        !.sres = resp.kind,
                        !.serr = IF resp.kind = "error" THEN Some(resp.msg) ELSE NULL,
                        !.thrown = IF resp.kind = "throw" THEN Some(resp.msg) ELSE NULL]
            r  == AfterSignIn(resp)
        IN
        /\ BackendSignIn(resp)
        /\ IF r.goOn
           THEN /\ logins' = [logins EXCEPT ![c] =
                        [me EXCEPT !.pc = "profile",
                                   !.sess = Some(SessionOf(resp.user)),
                                   !.nProfile = @ + 1]]
                /\ UNCHANGED isAuthenticating
           ELSE Return(c, r.error, me)
    /\ UNCHANGED <<currentUser, session, isInitializing, mounted, instance,
                   listeners, logouts>>
    /\ UNCHANGED uiVars

\* The profile query settles: the success path, or the inner catch up to
\* its await of signOut.
LoginAfterProfile(c) ==
    /\ logins[c].pc = "profile"
    /\ \E resp \in ProfileResponses :
        LET me == [logins[c] EXCEPT
                        !.pres = IF resp.kind = "row" THEN "row" ELSE "failed"]
            r  == fetchUserProfile(me.sess[1], resp)
        IN
        IF ~r.threw
        THEN /\ setCurrentUser(me.inst, r.user)
             /\ setSession(me.inst, me.sess)
             /\ Return(c, NULL, me)
        ELSE /\ logins' = [logins EXCEPT ![c] =
                    [me EXCEPT !.pc = "signOut", !.sess = NULL,
                               !.nSignOut = @ + 1]]
             /\ UNCHANGED <<currentUser, session, isAuthenticating>>
    /\ UNCHANGED <<isInitializing, mounted, instance, listeners, logouts,
                   notifications, backendUser>>
    /\ UNCHANGED uiVars

\* A login that issues the compensating signOut again when it returns an
\* error.
LoginAfterSignOut_Retries(c) ==
    /\ logins[c].pc = "signOut"
    /\ \E resp \in SignOutResponses :
        LET me == [logins[c] EXCEPT
                        !.ores = resp.kind,
                        !.thrown = IF resp.kind = "throw" THEN Some(resp.msg) ELSE NULL]
        IN
        /\ BackendSignOut(resp)
        /\ IF resp.kind = "error"
           THEN /\ logins' = [logins EXCEPT ![c] =
                        [me EXCEPT !.nSignOut = @ + 1]]
                /\ UNCHANGED isAuthenticating
           ELSE Return(c, AfterSignOut(resp), me)
    /\ UNCHANGED <<currentUser, session, isInitializing, mounted, instance,
                   listeners, logouts>>
    /\ UNCHANGED uiVars

\* The compensating signOut settles.
LoginAfterSignOut(c) ==
    /\ logins[c].pc = "signOut"
    /\ \E resp \in SignOutResponses :
        LET me == [logins[c] EXCEPT
                        !.ores = resp.kind,
                        !.thrown = IF resp.kind = "throw" THEN Some(resp.msg) ELSE NULL]
        IN
        /\ BackendSignOut(resp)
        /\ Return(c, AfterSignOut(resp), me)
    /\ UNCHANGED <<currentUser, session, isInitializing, mounted, instance,
                   listeners, logouts>>
    /\ UNCHANGED uiVars

\* ------------------------------------------------------------- logout
\* A logout that raises the flag while it waits for the backend.
LogoutCall_SetsAuthenticating(l) ==
    /\ mounted
    /\ logouts[l].pc = "idle"
    /\ l > 1 => logouts[l - 1].pc # "idle"
    /\ logouts' = [logouts EXCEPT ![l].pc = "signOut", ![l].nSignOut = @ + 1]
    /\ isAuthenticating' = TRUE
    /\ UNCHANGED <<currentUser, session, isInitializing, mounted, instance,
                   listeners, logins, notifications, backendUser>>
    /\ UNCHANGED uiVars

\* logout() up to its await of signOut.
LogoutCall(l) ==
    /\ mounted
    /\ logouts[l].pc = "idle"
    /\ l > 1 => logouts[l - 1].pc # "idle"
    /\ logouts' = [logouts EXCEPT ![l].pc = "signOut", ![l].nSignOut = @ + 1]
    /\ UNCHANGED <<reactState, mounted, instance, listeners, logins,
                   notifications, backendUser>>
    /\ UNCHANGED uiVars

\* A logout that clears the state itself once signOut has settled.
LogoutAfterSignOut_ClearsState(l) ==
    /\ logouts[l].pc = "signOut"
    /\ \E resp \in SignOutResponses :
        /\ BackendSignOut(resp)
        /\ logouts' = [logouts EXCEPT
                ![l].pc = IF resp.kind = "throw" THEN "rejected" ELSE "done"]
    /\ currentUser' = NULL
    /\ session' = NULL
    /\ UNCHANGED <<isInitializing, isAuthenticating, mounted, instance,
                   listeners, logins>>
    /\ UNCHANGED uiVars

\* signOut settles: a returned error is logged, a thrown one is not caught.
LogoutAfterSignOut(l) ==
    /\ logouts[l].pc = "signOut"
    /\ \E resp \in SignOutResponses :
        /\ BackendSignOut(resp)
        /\ logouts' = [logouts EXCEPT
                ![l].pc = IF resp.kind = "throw" THEN "rejected" ELSE "done"]
    /\ UNCHANGED <<reactState, mounted, instance, listeners, logins>>
    /\ UNCHANGED uiVars

\* ------------------------------------------------- the stream listener
\* A callback that clears the user and leaves the session.
onAuthStateChange_UserOnly(i, event) ==
    IF event = "SIGNED_OUT"
    THEN /\ setCurrentUser(i, NULL)
         /\ UNCHANGED session
    ELSE UNCHANGED <<currentUser, session>>

\* A callback that clears the state on every kind of notification.
onAuthStateChange_AnyEvent(i, event) ==
    /\ setCurrentUser(i, NULL)
    /\ setSession(i, NULL)

\* The callback given to onAuthStateChange, run for the mount i.
onAuthStateChange(i, event) ==
    IF event = "SIGNED_OUT"
    THEN /\ setCurrentUser(i, NULL)
         /\ setSession(i, NULL)
    ELSE UNCHANGED <<currentUser, session>>

\* A delivery that drops the notification without running the callback.
Deliver_Dropped(event) ==
    /\ event \in notifications
    /\ notifications' = notifications \ {event}
    /\ UNCHANGED <<reactState, mounted, instance, listeners, logins, logouts,
                   backendUser>>
    /\ UNCHANGED uiVars

\* A notification reaches the subscribed callbacks (at most one mount is
\* live, so at most one callback changes state).
Deliver(event) ==
    /\ event \in notifications
    /\ notifications' = notifications \ {event}
    /\ IF \E s \in listeners : s[1] = instance
       THEN onAuthStateChange(instance, event)
       ELSE UNCHANGED <<currentUser, session>>
    /\ UNCHANGED <<isInitializing, isAuthenticating, mounted, instance,
                   listeners, logins, logouts, backendUser>>
    /\ UNCHANGED uiVars

\* The backend emits on its own: a token refresh, or the end of the
\* session (expiry, a sign-out elsewhere).
BackendEmit(event) ==
    /\ event \in {"TOKEN_REFRESHED", "SIGNED_OUT"}
    /\ event \notin notifications
    /\ notifications' = notifications \cup {event}
    /\ backendUser' = IF event = "SIGNED_OUT" THEN NULL ELSE backendUser
    /\ UNCHANGED <<reactState, mounted, instance, listeners, logins, logouts>>
    /\ UNCHANGED uiVars

\* ------------------------------------------------- mount and unmount
\* The subscription made by an effect run of mount i; the run that lasts
\* until the unmount is k = 0, the extra first run of StrictMode is k = 1.
Sub(i, k) == <<i, k>>

\* onAuthStateChange(callback) adds a subscription to the stream.
subscribe(L, s) == L \cup {s}

\* subscription.unsubscribe() removes that subscription from the stream.
unsubscribe(L, s) == L \ {s}

\* An effect whose StrictMode re-run subscribes again without the cleanup
\* of the first run.
Effect_NoCleanup(L, i, strict) ==
    IF strict
    THEN subscribe(subscribe(L, Sub(i, 1)), Sub(i, 0))
    ELSE subscribe(L, Sub(i, 0))

\* The provider's effect on mount. Under StrictMode a development build
\* runs it, runs its cleanup and runs it again in the same commit; a
\* production build runs it once.
Effect(L, i, strict) ==
    IF strict
    THEN subscribe(unsubscribe(subscribe(L, Sub(i, 1)), Sub(i, 1)), Sub(i, 0))
    ELSE subscribe(L, Sub(i, 0))

\* A provider that restores the session the backend holds when it mounts.
Mount_RestoresSession ==
    /\ boot.pc = "rendered"
    /\ ~mounted
    /\ instance < MaxMounts
    /\ mounted' = TRUE
    /\ instance' = instance + 1
    /\ currentUser' =
            IF backendUser = NULL THEN NULL
            ELSE Some([id       |-> backendUser[1],
                       email    |-> EmailOf[backendUser[1]],
                       role     |-> Profiles[backendUser[1]].role,
                       fullName |-> Profiles[backendUser[1]].full_name])
    /\ session' =
            IF backendUser = NULL THEN NULL ELSE Some(SessionOf(backendUser[1]))
    /\ isInitializing' = FALSE
    /\ isAuthenticating' = FALSE
    /\ \E strict \in BOOLEAN :
            listeners' = Effect(listeners, instance + 1, strict)
    /\ UNCHANGED <<logins, logouts, notifications, backendUser>>
    /\ UNCHANGED uiVars

\* The provider renders with its initial state and its effect subscribes.
Mount ==
    /\ boot.pc = "rendered"
    /\ ~mounted
    /\ instance < MaxMounts
    /\ mounted' = TRUE
    /\ instance' = instance + 1
    /\ currentUser' = NULL
    /\ session' = NULL
    /\ isInitializing' = FALSE
    /\ isAuthenticating' = FALSE
    /\ \E strict \in BOOLEAN :
            listeners' = Effect(listeners, instance + 1, strict)
    /\ UNCHANGED <<logins, logouts, notifications, backendUser>>
    /\ UNCHANGED uiVars

\* A cleanup that leaves the subscription in place.
Unsubscribe_Noop(i) == UNCHANGED listeners

\* The effect's cleanup: subscription?.unsubscribe().
Unsubscribe(i) == listeners' = unsubscribe(listeners, Sub(i, 0))

Unmount ==
    /\ mounted
    /\ mounted' = FALSE
    /\ Unsubscribe(instance)
    /\ UNCHANGED <<reactState, instance, logins, logouts, notifications,
                   backendUser>>
    /\ UNCHANGED uiVars

Next ==
    \/ Mount
    \/ Unmount
    \/ \E c \in LoginIds : LoginCall(c)
    \/ \E c \in LoginIds : LoginAfterSignIn(c)
    \/ \E c \in LoginIds : LoginAfterProfile(c)
    \/ \E c \in LoginIds : LoginAfterSignOut(c)
    \/ \E l \in LogoutIds : LogoutCall(l)
    \/ \E l \in LogoutIds : LogoutAfterSignOut(l)
    \/ \E e \in EventKinds : Deliver(e)
    \/ \E e \in EventKinds : BackendEmit(e)

Spec == Init /\ [][Next]_vars

\* The event loop runs the callback of a SIGNED_OUT that the backend has
\* emitted: a pending notification is not held back for ever.
FairSpec == Spec /\ WF_vars(Deliver("SIGNED_OUT"))

\* ------------------------------------------------ two calls of login
\* Nothing in login keeps a second call from starting while the first is
\* at an await; two calls are what an overlap, or a login after a login,
\* takes.
OverlapIds == {1, 2}

OverlapInit ==
    /\ currentUser = NULL
    /\ session = NULL
    /\ isInitializing = FALSE
    /\ isAuthenticating = FALSE
    /\ mounted = FALSE
    /\ instance = 0
    /\ listeners = {}
    /\ logins = [c \in OverlapIds |-> IdleLogin]
    /\ logouts = [l \in LogoutIds |-> IdleLogout]
    /\ notifications = {}
    /\ backendUser \in {NULL} \cup {Some(u) : u \in Users}
    /\ document = {"root"}
    /\ boot = RunScript(document, BootStart)
    /\ ancestors = <<>>
    /\ hook = NoHook

OverlapNext ==
    \/ Mount
    \/ Unmount
    \/ \E c \in OverlapIds : LoginCall(c)
    \/ \E c \in OverlapIds : LoginAfterSignIn(c)
    \/ \E c \in OverlapIds : LoginAfterProfile(c)
    \/ \E c \in OverlapIds : LoginAfterSignOut(c)
    \/ \E l \in LogoutIds : LogoutCall(l)
    \/ \E l \in LogoutIds : LogoutAfterSignOut(l)
    \/ \E e \in EventKinds : Deliver(e)
    \/ \E e \in EventKinds : BackendEmit(e)

OverlapSpec == OverlapInit /\ [][OverlapNext]_vars

\* --------------------------------------- startup and useRequests alone
\* The page loads and the startup script runs once.
Bootstrap ==
    /\ boot.pc = "start"
    /\ boot' = RunScript(document, boot)
    /\ UNCHANGED <<authVars, document, ancestors, hook>>

\* A component is rendered below one more provider.
Wrap(p) ==
    /\ hook.status = "none"
    /\ Len(ancestors) < MaxDepth
    /\ ancestors' = Append(ancestors, p)
    /\ UNCHANGED <<authVars, document, boot, hook>>

\* The component below the providers calls useRequests.
CallUseRequests ==
    /\ hook.status = "none"
    /\ hook' = useRequests(ancestors)
    /\ UNCHANGED <<authVars, document, boot, ancestors>>

UiInit ==
    /\ AuthInit
    /\ document \in SUBSET {"root", "app"}
    /\ boot = BootStart
    /\ ancestors = <<>>
    /\ hook = NoHook

UiNext ==
    \/ Bootstrap
    \/ \E p \in Providers : Wrap(p)
    \/ CallUseRequests

UiSpec == UiInit /\ [][UiNext]_vars

TypeOK ==
    /\ isInitializing \in BOOLEAN
    /\ isAuthenticating \in BOOLEAN
    /\ Len(currentUser) <= 1
    /\ Len(session) <= 1
    /\ notifications \subseteq EventKinds

\* ---------------------------------------------------------------- claims
\* The step in which the login call c resolves.
Resolves(c) == logins[c].pc # "done" /\ logins'[c].pc = "done"

\* The step in which a notification of kind e is delivered.
Delivers(e) == e \in notifications /\ notifications' = notifications \ {e}

\* The User assembled from the session s and the profile row of its user.
UserOf(s) == [id       |-> s.user.id,
              email    |-> s.user.email,
              role     |-> Profiles[s.user.id].role,
              fullName |-> Profiles[s.user.id].full_name]

\* C1: in every reachable state currentUser and session are both null or
\* both non-null.
C1_UserAndSessionTogether == (currentUser = NULL) <=> (session = NULL)

\* A login has set both, and a logout has returned since.
C1_Witness ==
    /\ currentUser # NULL
    /\ session # NULL
    /\ \E l \in LogoutIds : logouts[l].pc = "done"

\* C2: a login whose sign-in returns a session and whose profile lookup
\* returns a row resolves to {error: null}; it sets currentUser to the
\* session's id and email with the profile's role and full_name, and session
\* to the returned session (the setters act on a provider that is mounted).
C2_LoginSuccess ==
    [][\A c \in LoginIds :
        (logins[c].pc = "profile" /\ logins'[c].pres = "row") =>
            /\ logins[c].sres = "session"
            /\ logins'[c].pc = "done"
            /\ logins'[c].error = NULL
            /\ Live(logins[c].inst) =>
                    /\ currentUser' = Some(UserOf(logins[c].sess[1]))
                    /\ session' = logins[c].sess]_vars

\* A login has resolved to null and the user it set is the second account's.
C2_Witness ==
    /\ \E c \in LoginIds :
            /\ logins[c].pc = "done"
            /\ logins[c].pres = "row"
            /\ logins[c].error = NULL
            /\ session = logins[c].sess
    /\ currentUser = Some([id |-> 2, email |-> "bob@zankli.test",
                           role |-> "staff", fullName |-> "Bob Eze"])

\* C3: a login whose sign-in succeeds and whose profile lookup fails resolves
\* to the fixed contact-support message and has issued exactly one sign-out,
\* whatever the compensating sign-out comes back with.
C3_ProfileFailure ==
    \A c \in LoginIds :
        (logins[c].pc = "done" /\ logins[c].pres = "failed") =>
            /\ logins[c].error = Some(ContactSupportMsg)
            /\ logins[c].nSignOut = 1

\* C4: a login whose sign-in returns an error resolves to that error's
\* message and has attempted no profile lookup.
C4_CredentialsRejected ==
    \A c \in LoginIds :
        logins[c].sres = "error" =>
            /\ logins[c].pc = "done"
            /\ logins[c].serr # NULL
            /\ logins[c].error = logins[c].serr
            /\ logins[c].nProfile = 0

C4_Witness ==
    \E c \in LoginIds :
        /\ logins[c].pc = "done"
        /\ logins[c].sres = "error"
        /\ logins[c].error = Some("Email not confirmed")

\* C5: a login call resets isAuthenticating exactly once, in the step in
\* which it resolves and not before, so that isAuthenticating is false when
\* it resolves (on a provider that is mounted).
C5_AuthenticatingReset ==
    [][\A c \in LoginIds :
        /\ logins'[c].nReset = IF logins'[c].pc = "done" THEN 1 ELSE 0
        /\ (Resolves(c) /\ Live(logins[c].inst)) => isAuthenticating' = FALSE]_vars

\* A login has failed after the sign-in and the flag is down.
C5_Witness ==
    /\ mounted
    /\ ~isAuthenticating
    /\ \E c \in LoginIds :
            /\ logins[c].pc = "done"
            /\ logins[c].ores = "throw"
            /\ logins[c].nReset = 1

\* C6: while the provider is mounted, a delivered SIGNED_OUT sets currentUser
\* and session to null, and a delivered notification of any other kind
\* leaves the four pieces of state as they are.
C6_Notification ==
    [][\A e \in EventKinds :
        (mounted /\ Delivers(e)) =>
            IF e = "SIGNED_OUT"
            THEN /\ currentUser' = NULL
                 /\ session' = NULL
                 /\ UNCHANGED <<isInitializing, isAuthenticating>>
            ELSE UNCHANGED reactState]_vars

\* A user was logged in and a notification has logged them out.
C6_Witness ==
    /\ mounted
    /\ currentUser = NULL
    /\ session = NULL
    /\ notifications = {}
    /\ \E c \in LoginIds : logins[c].pc = "done" /\ logins[c].error = NULL

\* C7: a logout call issues one backend sign-out and changes none of the
\* four pieces of state itself; on a mounted provider currentUser and
\* session are cleared only by the delivery of SIGNED_OUT.
C7_LogoutFrame ==
    [][/\ \A l \in LogoutIds :
            /\ logouts'[l].nSignOut = IF logouts'[l].pc = "idle" THEN 0 ELSE 1
            /\ logouts'[l] # logouts[l] => UNCHANGED reactState
       /\ (/\ mounted /\ mounted'
           /\ \/ currentUser # NULL /\ currentUser' = NULL
              \/ session # NULL /\ session' = NULL)
            => Delivers("SIGNED_OUT")]_vars

\* A logout has returned with a failed sign-out and the user is still set.
C7_Witness ==
    /\ mounted
    /\ currentUser # NULL
    /\ backendUser # NULL
    /\ "SIGNED_OUT" \notin notifications
    /\ \E l \in LogoutIds : logouts[l].pc = "done"

\* C8: a logout call completes normally whatever the backend sign-out comes
\* back with.
C8_LogoutNeverFails ==
    \A l \in LogoutIds : logouts[l].pc # "rejected"

\* C9: a login call never rejects, and the error it resolves to is null, the
\* backend's credential message, the contact-support message, one of the two
\* fixed unexpected-error messages or the message of the exception caught.
C9_ErrorTaxonomy ==
    \A c \in LoginIds :
        /\ logins[c].pc \in {"idle", "signIn", "profile", "signOut", "done"}
        /\ logins[c].pc = "done" =>
            \/ logins[c].error = NULL
            \/ logins[c].serr # NULL /\ logins[c].error = logins[c].serr
            \/ logins[c].error = Some(ContactSupportMsg)
            \/ logins[c].error \in {Some(UnknownErrorMsg), Some(NetworkErrorMsg)}
            \/ /\ logins[c].thrown \notin {NULL, Some("")}
               /\ logins[c].error = logins[c].thrown

\* An exception without a message was caught and the fixed message returned.
C9_Witness ==
    \E c \in LoginIds :
        /\ logins[c].pc = "done"
        /\ logins[c].thrown = Some("")
        /\ logins[c].error = Some(NetworkErrorMsg)

\* C10: once the provider is unmounted no listener of it is subscribed, and
\* currentUser and session do not change while it stays unmounted.
C10_Unmounted ==
    [][/\ ~mounted' => listeners' = {}
       /\ (~mounted /\ ~mounted') => UNCHANGED <<currentUser, session>>]_vars

\* Unmounted while logged in, and the backend's SIGNED_OUT has come and gone.
C10_Witness ==
    /\ ~mounted
    /\ listeners = {}
    /\ currentUser # NULL
    /\ backendUser = NULL
    /\ "SIGNED_OUT" \notin notifications

\* C11: the provider starts logged out, whatever session the backend holds:
\* initially and after every mount currentUser and session are null and
\* isAuthenticating is false; isInitializing is false in every state.
C11_StartsLoggedOut ==
    /\ currentUser = NULL /\ session = NULL
    /\ ~isAuthenticating /\ ~isInitializing
    /\ [][/\ ~isInitializing'
          /\ (~mounted /\ mounted') =>
                /\ currentUser' = NULL
                /\ session' = NULL
                /\ ~isAuthenticating']_vars

\* Mounted over a session the backend had kept, before any login call.
C11_Witness ==
    /\ mounted
    /\ backendUser # NULL
    /\ currentUser = NULL
    /\ session = NULL
    /\ ~isAuthenticating
    /\ \A c \in LoginIds : logins[c].pc = "idle"

\* C12: useRequests returns the value of the nearest RequestProvider above
\* the caller when there is one, and otherwise throws the error that names
\* the missing RequestProvider; it never returns undefined.
C12_UseRequests ==
    hook.status # "none" =>
        /\ hook.status = "returned" => hook.value # NULL
        /\ IF \E i \in 1..Len(ancestors) : ancestors[i].kind = "Request"
           THEN /\ hook.status = "returned"
                /\ \E i \in 1..Len(ancestors) :
                        /\ ancestors[i].kind = "Request"
                        /\ \A j \in (i + 1)..Len(ancestors) :
                                ancestors[j].kind # "Request"
                        /\ hook.value = Some(ancestors[i].value)
           ELSE /\ hook.status = "threw"
                /\ hook.message = "useRequests must be used within a RequestProvider"

\* Called below a provider that is not a RequestProvider: it threw.
C12_Witness ==
    /\ Len(ancestors) > 0
    /\ \A i \in 1..Len(ancestors) : ancestors[i].kind # "Request"
    /\ hook.status = "threw"

\* C13: when the page has no element 'root' the startup script throws with
\* no root created and nothing rendered; when it has one, one root is
\* created and the tree is rendered once, with Auth, Request, Vendor, Store
\* and App nested in that order; the script does not run again.
C13_Bootstrap ==
    /\ [](boot.pc # "start" =>
            IF "root" \notin document
            THEN /\ boot.pc = "threw"
                 /\ boot.error # NULL
                 /\ boot.roots = 0 /\ boot.renders = 0 /\ boot.tree = <<>>
            ELSE /\ boot.pc = "rendered"
                 /\ boot.roots = 1 /\ boot.renders = 1
                 /\ SelectSeq(boot.tree, LAMBDA e : e # "StrictMode")
                        = <<"AuthProvider", "RequestProvider", "VendorProvider",
                            "StoreProvider", "App">>)
    /\ [][boot.pc # "start" => boot' = boot]_vars

\* The script has thrown in a page whose only element is not 'root'.
C13_Witness ==
    /\ document = {"app"}
    /\ boot.pc = "threw"
    /\ boot.roots = 0

\* C14: a login call issues sign-in once and first; the profile lookup at
\* most once, and only when the sign-in has returned a session; the
\* compensating sign-out at most once, and only when the profile lookup has
\* failed.  None is issued again, and no sign-out is issued when the login
\* succeeds or the credentials are rejected.
C14_SequentialCalls ==
    \A c \in DOMAIN logins :
        LET me == logins[c] IN
        /\ me.nSignIn = IF me.pc = "idle" THEN 0 ELSE 1
        /\ me.nProfile = IF me.sres = "session" THEN 1 ELSE 0
        /\ me.nSignOut = IF me.pres = "failed" THEN 1 ELSE 0
        /\ me.pc \in {"idle", "signIn"} <=> me.sres = "none"
        /\ me.pres # "none" => me.sres = "session" /\ me.pc \in {"signOut", "done"}
        /\ me.ores # "none" => me.pres = "failed" /\ me.pc = "done"
        /\ (me.pc = "done" /\ (me.error = NULL \/ me.sres = "error"))
                => me.nSignOut = 0

\* A login has gone through all three calls, once each.
C14_Witness ==
    \E c \in DOMAIN logins :
        /\ logins[c].pc = "done"
        /\ logins[c].ores = "error"
        /\ logins[c].nSignIn = 1
        /\ logins[c].nProfile = 1
        /\ logins[c].nSignOut = 1

\* A login call that is suspended at one of its awaits.
InFlight(c) == logins[c].pc \in {"signIn", "profile", "signOut"}

\* C15: on a mounted provider isAuthenticating is true only while a login
\* call made on it is in flight, so it is false whenever none is; a step of
\* a logout call or the delivery of a notification leaves it as it is.
C15_AuthenticatingOnlyInFlight ==
    /\ [](mounted /\ isAuthenticating =>
            \E c \in DOMAIN logins : InFlight(c) /\ logins[c].inst = instance)
    /\ [][(logouts' # logouts \/ \E e \in EventKinds : Delivers(e))
            => isAuthenticating' = isAuthenticating]_vars

\* A login has resolved, a logout is waiting for the backend, and the flag
\* is down.
C15_Witness ==
    /\ mounted
    /\ ~isAuthenticating
    /\ \E c \in DOMAIN logins : logins[c].pc = "done"
    /\ \A c \in DOMAIN logins : ~InFlight(c)
    /\ \E l \in DOMAIN logouts : logouts[l].pc = "signOut"

\* C16: after logout is called on a logged-in, mounted provider, an emitted
\* SIGNED_OUT that is delivered leads to currentUser and session both null
\* (or to the provider's unmount); as long as no SIGNED_OUT is delivered a
\* mounted provider's currentUser and session stay non-null, whatever the
\* logout call has returned.
C16_LogoutClearsOnNotification ==
    /\ (/\ mounted
        /\ currentUser # NULL
        /\ session # NULL
        /\ \E l \in DOMAIN logouts : logouts[l].pc # "idle"
        /\ "SIGNED_OUT" \in notifications)
            ~> (~mounted \/ (currentUser = NULL /\ session = NULL))
    /\ [][(/\ mounted /\ mounted'
           /\ currentUser # NULL
           /\ session # NULL
           /\ ~Delivers("SIGNED_OUT"))
            => (currentUser' # NULL /\ session' # NULL)]_vars

\* A logout of a logged-in user has returned, its SIGNED_OUT has been
\* delivered, and the provider is logged out.
C16_Witness ==
    /\ mounted
    /\ currentUser = NULL
    /\ session = NULL
    /\ backendUser = NULL
    /\ notifications = {}
    /\ \E c \in DOMAIN logins : logins[c].pc = "done" /\ logins[c].error = NULL
    /\ \E l \in DOMAIN logouts : logouts[l].pc = "done"

Succeeds(c) == Resolves(c) /\ logins'[c].error = NULL

\* C18: a step of a login call other than the one in which it resolves
\* without an error leaves currentUser and session as they are, and each
\* of the two is given a non-null value only in such a step; a login that
\* fails while a user is logged in leaves that user and session in place.
C18_FailedLoginFrame ==
    [][/\ \A c \in DOMAIN logins :
            (logins'[c] # logins[c] /\ ~Succeeds(c))
                => UNCHANGED <<currentUser, session>>
       /\ (\/ currentUser' # currentUser /\ currentUser' # NULL
           \/ session' # session /\ session' # NULL)
            => \E c \in DOMAIN logins : Succeeds(c)]_vars

\* The first login logged user 1 in, the second was rejected, and user 1
\* and the session are still in place.
C18_Witness ==
    /\ mounted
    /\ logins[1].pc = "done" /\ logins[1].error = NULL
    /\ 2 \in DOMAIN logins
    /\ logins[2].pc = "done" /\ logins[2].sres = "error"
    /\ currentUser # NULL /\ currentUser[1].id = 1
    /\ session = Some(SessionOf(1))

\* C19: while at least one login call made on the mounted provider is in
\* flight isAuthenticating is true, also when calls overlap: the end of one
\* call does not lower the flag under another.
C19_OverlapKeepsFlag ==
    (mounted /\ \E c \in DOMAIN logins : InFlight(c) /\ logins[c].inst = instance)
        => isAuthenticating

\* Nothing is under way: no login or logout call is at an await and no
\* notification waits for its delivery.
Quiescent ==
    /\ \A c \in DOMAIN logins : ~InFlight(c)
    /\ \A l \in DOMAIN logouts : logouts[l].pc # "signOut"
    /\ notifications = {}

\* C20: in every quiescent state of a mounted provider, a non-null
\* currentUser is the user whose session the backend holds.
C20_NoDrift ==
    (mounted /\ Quiescent /\ currentUser # NULL)
        => backendUser = Some(currentUser[1].id)

====
